---- MODULE Spec2Model ----
(***************************************************************************)
(* A model of the resilient extraction engine of JapanScraper:             *)
(*   - the browsing-session lifecycle of BuyeeScraper (setup_driver,       *)
(*     cleanup, is_driver_valid, ensure_valid_session),                    *)
(*   - the pagination loop of BuyeeScraper.search_items,                   *)
(*   - the page-state classifier check_page_state and the extraction step  *)
(*     that consumes its result,                                           *)
(*   - the three hand-written retry loops (search navigation, detail-page  *)
(*     navigation, PriceComparator._get_page).                             *)
(*                                                                         *)
(* Three specifications share the module:                                  *)
(*   Spec          the session manager driving repeated search_items calls *)
(*   SpecClassify  check_page_state / extraction over synthetic pages      *)
(*   SpecRetry     the retry loops over per-attempt failure kinds          *)
(***************************************************************************)
EXTENDS Integers, Sequences, FiniteSets, TLC

VARIABLES
    \* ---- BuyeeScraper session state (Spec) ----
    driver,                \* self.driver: "none" | "live" | "partial" | "dead"
    orphans,               \* browser processes still running after a failed quit()
    session_retry_count,   \* self.session_retry_count
    \* ---- search_items locals (Spec) ----
    pc,                    \* position inside search_items / its caller
    attempt,               \* loop variable of the navigation retry loop
    page,                  \* local variable page
    n_items,               \* len(item_summaries) of the page being processed
    item_idx,              \* index of the summary being processed
    all_items,             \* len(all_items)
    returned,              \* [done, kind, len]: the value search_items returned
    \* ---- history variables (Spec) ----
    page_loads,            \* search-result page loads performed by this search
    cause,                 \* why the search ended
    lastCheck,             \* the liveness check made by the previous step
    evs_fail_streak,       \* failed reconnects of ensure_valid_session in a row
    attempts_while_dead,   \* setup_driver calls since the session was last live
    used_absent,           \* self.driver was dereferenced while it was None
    paced,                 \* time.sleep(3) of line 1089 ran since the last page load
    eligible,              \* the previous step scraped a listing successfully and it is valuable
    \* ---- classifier run (SpecClassify) ----
    cpage,                 \* the synthetic page under classification
    cpc,                   \* "start" | "classified" | "done" | "analyzed"
    cstate,                \* (state, is_error) returned by check_page_state
    csummaries,            \* what the extraction step returned
    canalysis,             \* page_state of the dict analyze_page_content returned
    csnapshot,             \* check_page_state wrote full_page_source_*.html
    \* ---- retry loops (SpecRetry) ----
    rloop,                 \* which retry loop runs
    rpc,                   \* "try" | "done"
    rattempt,              \* loop variable (attempt / retry)
    rtries,                \* operations attempted so far
    rdelays,               \* the sleeps made before retries, in order
    rkinds,                \* failure kind of every attempt so far
    routcome,              \* "pending" | "success" | "failure" | "raised"
    \* ---- field extraction (SpecExtract) ----
    xfn,                   \* "card": extract_card_info; "detail": scrape_item_detail_page
    xpc,                   \* "url" | "attach" | "lookup" | "resolved" | "done"
    xurl,                  \* the url argument of scrape_item_detail_page
    xfield,                \* the field whose selector loop runs
    xcands,                \* candidate -> it matches inside the field's scope
    xk,                    \* index of the next candidate selector
    xlookups,              \* the lookups made for xfield, in order
    xinfo,                 \* card_info / item_details: field -> value
    xresult,               \* "pending" | "record" | "none" | "skipped"
    xstale,                \* stale-element events met so far
    \* ---- debug artifacts and maintenance cooldown (SpecCapture) ----
    now,                   \* wall clock, in half seconds
    ticks,                 \* clock steps taken between calls
    files,                 \* paths of the debug artifacts written so far
    rewritten,             \* paths opened for writing after they were written
    captures,              \* captures made so far
    status_start,          \* first line of maintenance_status.txt
    first_detected,        \* when handle_maintenance was first called
    maint_calls,           \* calls of handle_maintenance so far
    maint_result,          \* what the last call returned: "none" | "wait" | "stop"
    \* ---- the loop over the search terms (SpecTerms) ----
    trunner,               \* "main": main(); "engine": CoreEngine.search_listings
    tidx,                  \* position of the loop in the term list, from 1
    tprocessed,            \* terms whose search was started
    tfound,                \* terms whose search returned listings
    tkept,                 \* terms whose listings the run still holds
    tstate,                \* "running" | "finished"
    \* ---- release of the session (Spec) ----
    rel_calls,             \* calls of cleanup() made from outside so far
    rel_raised,            \* the last of them let an exception out
    \* ---- find_profitable_listings (SpecProfit) ----
    min_profit_ratio,      \* config['min_profit_ratio'], in tenths
    include_grading,       \* config['include_grading']
    lidx,                  \* listings checked so far
    listing,               \* the listing checked last: price, eBay price, fetch
    reported,              \* it was appended to profitable_listings
    \* ---- BookmarkManager (SpecBookmarks) ----
    bookmarks,             \* self.bookmarks: the dict as its items, in order
    bsaves,                \* calls of save_auction so far
    blast,                 \* the last call: its argument and what it returned
    \* ---- one workflow from construction to its end (SpecWorkflow) ----
    wrunner,               \* "main" (buyee_scraper.main) | "engine" (run_workflow)
    wpc,                   \* "off" | "constructed" | "terms" | "search" | "finally" |
                           \* "ended"
    wterms,                \* search terms handled so far
    wclose,                \* what close() did: "not_called" | "quit" | "raised"
    wresult,               \* how the workflow ended: "none" | "no_connection" |
                           \* "done" | "empty"
    \* ---- CoreEngine.search_listings (SpecListings) ----
    max_listings_per_search, \* config['max_listings_per_search']
    sterm,                 \* index of the term searched next
    all_listings,          \* the list the loop extends
    unique_listings,       \* the list search_listings returned
    spc,                   \* "off" | "loop" | "returned"
    \* ---- sanitize_filename (SpecSanitize) ----
    fname,                 \* the argument, as its characters
    fout,                  \* sanitize_filename(fname)
    fagain,                \* sanitize_filename(fout)
    fpc                    \* "off" | "start" | "once" | "twice"

sessVars  == <<driver, orphans, session_retry_count>>
searchVars == <<pc, attempt, page, n_items, item_idx, all_items, returned>>
histVars  == <<page_loads, cause, lastCheck, evs_fail_streak,
               attempts_while_dead, used_absent, paced, eligible>>
clsVars   == <<cpage, cpc, cstate, csummaries, canalysis, csnapshot>>
retryVars == <<rloop, rpc, rattempt, rtries, rdelays, rkinds, routcome>>
extVars   == <<xfn, xpc, xurl, xfield, xcands, xk, xlookups, xinfo, xresult,
               xstale>>
capVars   == <<now, ticks, files, rewritten, captures, status_start,
               first_detected, maint_calls, maint_result>>
termVars  == <<trunner, tidx, tprocessed, tfound, tkept, tstate>>
relVars   == <<rel_calls, rel_raised>>
profVars  == <<min_profit_ratio, include_grading, lidx, listing, reported>>
bmVars    == <<bookmarks, bsaves, blast>>
wfVars    == <<wrunner, wpc, wterms, wclose, wresult>>
slVars    == <<max_listings_per_search, sterm, all_listings, unique_listings,
               spc>>
snVars    == <<fname, fout, fagain, fpc>>
auxVars   == <<bmVars, wfVars, slVars, snVars>>
runVars   == <<capVars, termVars, relVars, profVars, auxVars>>
vars == <<sessVars, searchVars, histVars, clsVars, retryVars, extVars,
          runVars>>

(***************************************************************************)
(* Program constants and model bounds                                      *)
(***************************************************************************)
max_session_retries == 3
session_retry_delay == 5
nav_max_retries == 3
nav_retry_sleep == 2

\* self.max_pages is configuration (default 5); the model runs it small.
max_pages == 2
\* cards returned by one results page
MaxItems == 2
\* browser processes a failed quit() may leave behind
MaxOrphans == 1

Min(a, b) == IF a < b THEN a ELSE b

(***************************************************************************)
(* Session manager                                                         *)
(***************************************************************************)
DriverStates == {"none", "live", "partial", "dead"}
\* a handle that answers commands: fully set up, or created by
\* webdriver.Chrome() before a later call of setup_driver raised
Responsive(d) == d \in {"live", "partial"}

\* outcome of one driver command on a responsive handle
ProbeOutcomes == {"ok", "dies"}
\* driver.quit(): returns, or raises with the browser gone, or raises with
\* the browser process left running
QuitOutcomes == {"ok", "raise_gone", "raise_alive"}
\* setup_driver(): success, failure before self.driver is assigned, failure
\* after webdriver.Chrome() returned (stealth / timeouts / CDP call raised)
SetupOutcomes == {"ok", "fail_none", "fail_partial"}

QuitChoices(o) == IF o < MaxOrphans THEN QuitOutcomes
                  ELSE QuitOutcomes \ {"raise_alive"}

\* self.driver.current_url as a liveness probe: TRUE iff it returns
ProbeOk(d, pr) == Responsive(d) /\ pr = "ok"
\* the handle after a command on it
AfterCommand(d, pr) == IF Responsive(d) /\ pr = "dies" THEN "dead" ELSE d

\* calls of cleanup() from outside the scraper in one run
MaxReleases == 2

\* cleanup(): quit the held driver, swallow a failing quit, clear the handle
Cleanup(s, q) ==
    IF s.driver = "none" THEN s
    ELSE [s EXCEPT !.driver = "none",
                   !.orphans = IF q = "raise_alive" THEN @ + 1 ELSE @]

\* cleanup() with quit() outside the try: a failing quit leaves the method
\* before the handle is cleared
CleanupCall_Unguarded(s, q) ==
    IF s.driver # "none" /\ q # "ok"
    THEN [sess |-> [s EXCEPT !.orphans = IF q = "raise_alive" THEN @ + 1
                                         ELSE @],
          raised |-> TRUE]
    ELSE [sess |-> Cleanup(s, q), raised |-> FALSE]

\* a call of cleanup() as its caller sees it: the session it leaves and
\* whether an exception came out (quit() is inside `try ... except
\* Exception`, the rest of the body cannot raise)
CleanupCall(s, q) == [sess |-> Cleanup(s, q), raised |-> FALSE]

\* setup_driver(): returns a pair <<session, success>>; never raises
SetupDriver(s, su) ==
    CASE su = "ok"           -> <<[s EXCEPT !.driver = "live"], TRUE>>
      [] su = "fail_partial" -> <<[s EXCEPT !.driver = "partial"], FALSE>>
      [] OTHER               -> <<s, FALSE>>

\* history: setup_driver calls made since the session was last live
CountAttempt(n, ok) == IF ok THEN 0 ELSE Min(n + 1, max_session_retries + 1)

NoCheck == [fn |-> "none", outcome |-> "none", result |-> FALSE,
            slept |-> FALSE, prior |-> 0]

\* is_driver_valid(): probe; on failure cleanup() and setup_driver(), whose
\* return value is ignored; setup_driver never raises, so the result is True
IsDriverValid(s, pr, q, su) ==
    IF ProbeOk(s.driver, pr)
    THEN [sess |-> s, result |-> TRUE, attempted |-> FALSE,
          check |-> [fn |-> "is_driver_valid", outcome |-> "alive",
                     result |-> TRUE, slept |-> FALSE, prior |-> 0]]
    ELSE LET s1 == [s EXCEPT !.driver = AfterCommand(@, pr)]
             s2 == Cleanup(s1, q)
             r  == SetupDriver(s2, su)
         IN [sess |-> r[1], result |-> TRUE, attempted |-> TRUE,
             check |-> [fn |-> "is_driver_valid",
                        outcome |-> IF r[2] THEN "recreated"
                                            ELSE "recreate_failed",
                        result |-> TRUE, slept |-> FALSE, prior |-> 0]]

EnsureValidSession_OffByOne(s, pr, q, su) ==
    IF ProbeOk(s.driver, pr)
    THEN [sess |-> s, result |-> TRUE, attempted |-> FALSE,
          check |-> [fn |-> "ensure_valid_session", outcome |-> "alive",
                     result |-> TRUE, slept |-> FALSE, prior |-> 0]]
    ELSE LET s1 == [s EXCEPT !.driver = AfterCommand(@, pr)]
         IN IF s1.count > max_session_retries
            THEN [sess |-> s1, result |-> FALSE, attempted |-> FALSE,
                  check |-> [fn |-> "ensure_valid_session",
                             outcome |-> "max_retries", result |-> FALSE,
                             slept |-> FALSE, prior |-> 0]]
            ELSE LET s2 == Cleanup(s1, q)
                     r  == SetupDriver(s2, su)
                 IN IF r[2]
                    THEN [sess |-> [r[1] EXCEPT !.count = 0],
                          result |-> TRUE, attempted |-> TRUE,
                          check |-> [fn |-> "ensure_valid_session",
                                     outcome |-> "reconnected",
                                     result |-> TRUE, slept |-> TRUE,
                                     prior |-> 0]]
                    ELSE [sess |-> [r[1] EXCEPT !.count = @ + 1],
                          result |-> FALSE, attempted |-> TRUE,
                          check |-> [fn |-> "ensure_valid_session",
                                     outcome |-> "reconnect_failed",
                                     result |-> FALSE, slept |-> TRUE,
                                     prior |-> 0]]

\* ensure_valid_session() that leaves the counter alone after a successful
\* reconnection
EnsureValidSession_KeepsCount(s, pr, q, su) ==
    IF ProbeOk(s.driver, pr)
    THEN [sess |-> s, result |-> TRUE, attempted |-> FALSE,
          check |-> [fn |-> "ensure_valid_session", outcome |-> "alive",
                     result |-> TRUE, slept |-> FALSE, prior |-> 0]]
    ELSE LET s1 == [s EXCEPT !.driver = AfterCommand(@, pr)]
         IN IF s1.count >= max_session_retries
            THEN [sess |-> s1, result |-> FALSE, attempted |-> FALSE,
                  check |-> [fn |-> "ensure_valid_session",
                             outcome |-> "max_retries", result |-> FALSE,
                             slept |-> FALSE, prior |-> 0]]
            ELSE LET s2 == Cleanup(s1, q)
                     r  == SetupDriver(s2, su)
                 IN IF r[2]
                    THEN [sess |-> r[1],
                          result |-> TRUE, attempted |-> TRUE,
                          check |-> [fn |-> "ensure_valid_session",
                                     outcome |-> "reconnected",
                                     result |-> TRUE, slept |-> TRUE,
                                     prior |-> 0]]
                    ELSE [sess |-> [r[1] EXCEPT !.count = @ + 1],
                          result |-> FALSE, attempted |-> TRUE,
                          check |-> [fn |-> "ensure_valid_session",
                                     outcome |-> "reconnect_failed",
                                     result |-> FALSE, slept |-> TRUE,
                                     prior |-> 0]]

\* ensure_valid_session(): probe; on failure give up once
\* session_retry_count >= max_session_retries, else cleanup(),
\* sleep(session_retry_delay), setup_driver(); success resets the counter,
\* failure increments it
EnsureValidSession(s, pr, q, su) ==
    IF ProbeOk(s.driver, pr)
    THEN [sess |-> s, result |-> TRUE, attempted |-> FALSE,
          check |-> [fn |-> "ensure_valid_session", outcome |-> "alive",
                     result |-> TRUE, slept |-> FALSE, prior |-> 0]]
    ELSE LET s1 == [s EXCEPT !.driver = AfterCommand(@, pr)]
         IN IF s1.count >= max_session_retries
            THEN [sess |-> s1, result |-> FALSE, attempted |-> FALSE,
                  check |-> [fn |-> "ensure_valid_session",
                             outcome |-> "max_retries", result |-> FALSE,
                             slept |-> FALSE, prior |-> 0]]
            ELSE LET s2 == Cleanup(s1, q)
                     r  == SetupDriver(s2, su)
                 IN IF r[2]
                    THEN [sess |-> [r[1] EXCEPT !.count = 0],
                          result |-> TRUE, attempted |-> TRUE,
                          check |-> [fn |-> "ensure_valid_session",
                                     outcome |-> "reconnected",
                                     result |-> TRUE, slept |-> TRUE,
                                     prior |-> 0]]
                    ELSE [sess |-> [r[1] EXCEPT !.count = @ + 1],
                          result |-> FALSE, attempted |-> TRUE,
                          check |-> [fn |-> "ensure_valid_session",
                                     outcome |-> "reconnect_failed",
                                     result |-> FALSE, slept |-> TRUE,
                                     prior |-> 0]]

Session == [driver |-> driver, orphans |-> orphans,
            count |-> session_retry_count]

\* the session variables and the history of a liveness check c
ApplyCheck(c) ==
    /\ driver' = c.sess.driver
    /\ orphans' = c.sess.orphans
    /\ session_retry_count' = c.sess.count
    /\ lastCheck' = [c.check EXCEPT !.prior = evs_fail_streak]
    /\ attempts_while_dead' =
           IF c.attempted
           THEN CountAttempt(attempts_while_dead, c.sess.driver = "live")
           ELSE attempts_while_dead
    /\ evs_fail_streak' =
           CASE c.check.outcome = "reconnected"      -> 0
             [] c.check.outcome = "reconnect_failed" ->
                    Min(evs_fail_streak + 1, max_session_retries + 1)
             [] OTHER                                -> evs_fail_streak

(***************************************************************************)
(* Page-state classifier (check_page_state) over synthetic pages           *)
(***************************************************************************)
\* no_results_texts of check_page_state; the eleven Japanese phrases are
\* written as one ASCII atom
no_results_texts == {"No Results Found", "Could not find any results for",
                     "JA: gaitou suru shouhin ga mitsukarimasen deshita"}
\* literal strings a synthetic page source may contain
TextAtoms == {"No Results Found", "no results found",
              "JA: gaitou suru shouhin ga mitsukarimasen deshita",
              "captcha", "error", "system maintenance"}

\* A synthetic page as the driver shows it:
\*   fault      "page_source": driver.page_source raises;
\*              "file_write": writing full_page_source_*.html raises;
\*              "screenshot": save_screenshot raises;
\*              "essentials": the find_elements calls for header, footer,
\*              search box and category menu raise WebDriverException
\*   docReady   document.readyState reaches 'complete' within the wait
\*   nrSel      an element matching one of no_results_selectors:
\*              "absent" | "present" | "late" (rendered after the first scan)
\*   text       the literal strings found in page_source
\*   lateText   a no-results phrase is in the DOM but was rendered after
\*              page_source was read at the top of the call
\*   container  ul.auctionSearchResult.list_layout appears within its wait
\*   altContainer  div.itemList, div.search-results or
\*              div[data-testid='search-results'] is present
\*   cards      number of li.itemCard elements
\*   okCards    for how many of them extract_card_info returns a record
\*              (still attached, and the title lookup gives a text and an href)
\*   header, footer, searchBox, categoryMenu   essential page elements
Faults == {"none", "page_source", "file_write", "screenshot", "essentials"}
Pages == {p \in [fault : Faults,
                 docReady : BOOLEAN,
                 nrSel : {"absent", "present", "late"},
                 text : SUBSET TextAtoms, lateText : BOOLEAN,
                 container : BOOLEAN, altContainer : BOOLEAN,
                 cards : 0..MaxItems, okCards : 0..MaxItems,
                 header : BOOLEAN, footer : BOOLEAN, searchBox : BOOLEAN,
                 categoryMenu : BOOLEAN] : p.okCards <= p.cards}

\* the pages of the end-to-end scenario: the item container with three item
\* cards for each of which extract_card_info returns a record; every other
\* feature of the page is free
FixturePages == [fault : Faults,
                 docReady : BOOLEAN,
                 nrSel : {"absent", "present", "late"},
                 text : SUBSET TextAtoms, lateText : BOOLEAN,
                 container : {TRUE}, altContainer : BOOLEAN,
                 cards : {3}, okCards : {3},
                 header : BOOLEAN, footer : BOOLEAN, searchBox : BOOLEAN,
                 categoryMenu : BOOLEAN]

\* for text in no_results_texts: if text in page_source  (case-sensitive)
HasNoResultsText(p) == \E t \in no_results_texts : t \in p.text
\* the selector loop at the first scan and at a later re-scan
HasNoResultsElementFirst(p) == p.nrSel = "present"
HasNoResultsElementLater(p) == p.nrSel \in {"present", "late"}

StateReady     == [state |-> "ready", is_error |-> FALSE]
StateNoResults == [state |-> "no_results", is_error |-> FALSE]
\* an error state returned without its flag
StateError_Unflagged == [state |-> "error", is_error |-> FALSE]

StateError     == [state |-> "error", is_error |-> TRUE]
\* the states a return statement of check_page_state names
ReturnedStates == {"ready", "no_results", "error"}

\* check_page_state(): the (state, is_error) pair
CheckPageState(p) ==
    IF p.fault \in {"page_source", "file_write", "screenshot"}
    THEN StateError                                 \* outer except
    ELSE IF ~p.docReady THEN StateError             \* TimeoutException of the
                                                    \* readyState wait
    ELSE IF HasNoResultsElementFirst(p) THEN StateNoResults
    ELSE IF HasNoResultsText(p) THEN StateNoResults
    ELSE IF p.container
         THEN IF p.cards > 0 THEN StateReady
              ELSE IF HasNoResultsElementLater(p) THEN StateNoResults
              ELSE StateError
    ELSE IF p.fault = "essentials" THEN StateError  \* except of the probe
    ELSE IF p.header /\ p.footer /\ p.searchBox
         THEN IF HasNoResultsElementLater(p) THEN StateNoResults
              ELSE IF HasNoResultsText(p) THEN StateNoResults
              ELSE StateError
    ELSE StateError

\* check_page_state wrote the page source to full_page_source_<ts>.html
\* (lines 574-583); no other path of the function writes one
SnapshotWritten(p) == p.fault \notin {"page_source", "file_write"}

\* analyze_page_content(): the page_state of the dict it returns.  Its
\* container wait and its card lookup both use li.itemCard; a fault inside
\* the element checks is logged and the flags set so far are kept.
AnalyzePhraseState(p) ==
    IF "error" \in p.text THEN "error"
    ELSE IF \E t \in {"No Results Found", "no results found",
                       "JA: gaitou suru shouhin ga mitsukarimasen deshita"} :
               t \in p.text
         THEN "no_results"
    ELSE IF "captcha" \in p.text THEN "captcha"
    ELSE IF "system maintenance" \in p.text THEN "maintenance"
    ELSE "unknown"

AnalyzePageContent(p) ==
    IF p.fault \in {"page_source", "file_write", "screenshot"}
    THEN "error"                                    \* outer except
    ELSE LET has_item_cards == p.docReady /\ p.cards > 0
             essentials == /\ p.docReady
                           /\ p.fault # "essentials"
                           /\ (p.header \/ p.footer \/ p.searchBox
                                  \/ p.categoryMenu)
         IN  IF has_item_cards THEN "ready"
             ELSE IF ~essentials THEN "error"
             ELSE AnalyzePhraseState(p)

\* wait_for_page_ready(): True for ready / no_results, False for an error;
\* check_page_state returns nothing else, so the loop body runs once
WaitForPageReady_AnyState(p) == CheckPageState(p).state \in {"ready", "no_results", "error"}

WaitForPageReady(p) == CheckPageState(p).state \in {"ready", "no_results"}

\* a loaded page with nothing on it
BlankPage == [fault |-> "none", docReady |-> TRUE, nrSel |-> "absent",
              text |-> {}, lateText |-> FALSE,
              container |-> FALSE, altContainer |-> FALSE,
              cards |-> 0, okCards |-> 0,
              header |-> FALSE, footer |-> FALSE, searchBox |-> FALSE,
              categoryMenu |-> FALSE]
\* the pages a navigation of search_items may land on: one with item cards,
\* one with a no-results banner, one that did not load
LoadedPages == {[BlankPage EXCEPT !.container = TRUE, !.cards = 1, !.okCards = 1],
                [BlankPage EXCEPT !.nrSel = "present"],
                BlankPage}

NoSummaries == [raised |-> FALSE, n |-> 0]
\* the except handler of get_item_summaries_from_search_page reads
\* self.driver.page_source again, outside any try
ExtractionFault(p) == IF p.fault = "page_source"
                      THEN [raised |-> TRUE, n |-> 0] ELSE NoSummaries

\* get_item_summaries_from_search_page() appending all cards but the last
GetItemSummaries_DropsLast(p) ==
    IF ~p.docReady THEN ExtractionFault(p)
    ELSE IF ~(p.container \/ p.altContainer)
         THEN ExtractionFault(p)
    ELSE IF p.cards = 0 THEN ExtractionFault(p)
    ELSE [raised |-> FALSE, n |-> IF p.okCards > 0 THEN p.okCards - 1 ELSE 0]

\* get_item_summaries_from_search_page() on page p with a valid session:
\* what it returns (n summaries) or that it raises
GetItemSummaries(p) ==
    IF ~p.docReady THEN ExtractionFault(p)         \* readyState wait timed out
    ELSE IF ~(p.container \/ p.altContainer)
         THEN ExtractionFault(p)                   \* save_debug_info(no_container)
    ELSE IF p.cards = 0 THEN ExtractionFault(p)    \* save_debug_info(no_cards)
    ELSE [raised |-> FALSE, n |-> p.okCards]

\* search_items up to the first page's summaries: [] unless
\* wait_for_page_ready() said True
FirstPageSummaries(p) ==
    IF WaitForPageReady(p) THEN GetItemSummaries(p) ELSE NoSummaries

\* the same when the driver stops answering page_source after the
\* classification: the reads that feed save_debug_info raise
SummariesSourceLost(p) ==
    IF WaitForPageReady(p)
    THEN GetItemSummaries([p EXCEPT !.fault = "page_source"])
    ELSE NoSummaries

(***************************************************************************)
(* search_items                                                            *)
(***************************************************************************)
GetOutcomes == {"ok", "timeout", "dies"}
\* keys of the dict scrape_item_detail_page returns
DetailKeys == {"description", "seller_condition", "yahoo_link",
               "main_image_url"}

NotReturned == [done |-> FALSE, kind |-> "none", len |-> 0]

\* search_items without its outer `except Exception`: an exception of the
\* body leaves the method
ReturnEmpty_NoOuterHandler(c) ==
    /\ pc' = "returned"
    /\ returned' = [done |-> TRUE,
                    kind |-> IF c = "exception" THEN "raised" ELSE "list",
                    len |-> 0]
    /\ cause' = c

\* `return []` (also the outer except handler)
ReturnEmpty(c) ==
    /\ pc' = "returned"
    /\ returned' = [done |-> TRUE, kind |-> "list", len |-> 0]
    /\ cause' = c

\* `break` out of the page loop, then `return all_items`
BreakLoop(c) ==
    /\ pc' = "returned"
    /\ returned' = [done |-> TRUE, kind |-> "list", len |-> all_items]
    /\ cause' = c

NoCheckStep ==
    /\ lastCheck' = NoCheck
    /\ UNCHANGED <<evs_fail_streak, attempts_while_dead>>

\* A caller (main's loop over SEARCH_TERMS) calls search_items; line 974
SearchItemsStart ==
    /\ pc \in {"idle", "returned"}
    /\ \E pr \in ProbeOutcomes, q \in QuitChoices(orphans), su \in SetupOutcomes :
          ApplyCheck(IsDriverValid(Session, pr, q, su))
    /\ pc' = "navigate"
    /\ attempt' = 0
    /\ page' = 1
    /\ n_items' = 0
    /\ item_idx' = 0
    /\ all_items' = 0
    /\ returned' = NotReturned
    /\ page_loads' = 0
    /\ cause' = "none"
    /\ used_absent' = FALSE
    /\ paced' = FALSE
    /\ eligible' = FALSE
    /\ UNCHANGED <<clsVars, retryVars, extVars,
                   runVars>>

\* one iteration of `for attempt in range(max_retries)`: driver.get(search_url)
Navigate ==
    /\ pc = "navigate"
    /\ used_absent' = (driver = "none")
    /\ paced' = FALSE
    /\ UNCHANGED eligible
    /\ \E g \in GetOutcomes :
          IF Responsive(driver) /\ g = "ok"
          THEN /\ pc' = "wait_ready"
               /\ page_loads' = page_loads + 1
               /\ NoCheckStep
               /\ UNCHANGED <<sessVars, attempt, returned, cause>>
          ELSE IF attempt = nav_max_retries - 1
          THEN /\ ReturnEmpty("navigation_failed")
               /\ driver' = AfterCommand(driver, g)
               /\ NoCheckStep
               /\ UNCHANGED <<orphans, session_retry_count, attempt, page_loads>>
          ELSE /\ \E pr \in ProbeOutcomes, q \in QuitChoices(orphans),
                      su \in SetupOutcomes :
                     ApplyCheck(IsDriverValid(
                         [Session EXCEPT !.driver = AfterCommand(@, g)],
                         pr, q, su))
               /\ attempt' = attempt + 1
               /\ UNCHANGED <<pc, returned, cause, page_loads>>
    /\ UNCHANGED <<page, n_items, item_idx, all_items, clsVars, retryVars, extVars,
                   runVars>>

\* handle_cookie_consent(); wait_for_page_ready()
WaitReady ==
    /\ pc = "wait_ready"
    /\ \E pr \in ProbeOutcomes, p \in LoadedPages :
          /\ driver' = AfterCommand(driver, pr)
          /\ cstate' = IF ProbeOk(driver, pr) THEN CheckPageState(p)
                        ELSE StateError
          /\ IF ProbeOk(driver, pr) /\ WaitForPageReady(p)
             THEN /\ pc' = "loop_head"
                  /\ UNCHANGED <<returned, cause>>
             ELSE ReturnEmpty("page_not_ready")
    /\ NoCheckStep
    /\ used_absent' = FALSE
    /\ UNCHANGED <<orphans, session_retry_count, attempt, page, n_items,
                   item_idx, all_items, page_loads, paced, eligible, cpage, cpc,
                   csummaries,
                   canalysis, csnapshot, retryVars, extVars,
                   runVars>>

\* `while True:` in place of the page limit
PageLoopContinues_Always(p) == TRUE

\* `while page <= self.max_pages:`
PageLoopContinues(p) == p <= max_pages

\* the loop test and the is_driver_valid() of line 1011
LoopHead ==
    /\ pc = "loop_head"
    /\ used_absent' = FALSE
    /\ IF PageLoopContinues(page)
       THEN /\ \E pr \in ProbeOutcomes, q \in QuitChoices(orphans),
                   su \in SetupOutcomes :
                  ApplyCheck(IsDriverValid(Session, pr, q, su))
            /\ pc' = "summaries"
            /\ UNCHANGED <<returned, cause>>
       ELSE /\ BreakLoop("max_pages")
            /\ NoCheckStep
            /\ UNCHANGED sessVars
    /\ UNCHANGED <<attempt, page, n_items, item_idx, all_items, page_loads,
                   paced, eligible, clsVars, retryVars, extVars,
                   runVars>>

\* get_item_summaries_from_search_page(page): ensure_valid_session(), then
\* the extraction; `if not item_summaries: break`
Summaries ==
    /\ pc = "summaries"
    /\ used_absent' = FALSE
    /\ \E pr \in ProbeOutcomes, q \in QuitChoices(orphans), su \in SetupOutcomes :
          LET c == EnsureValidSession(Session, pr, q, su) IN
          /\ ApplyCheck(c)
          /\ IF ~c.result
             THEN /\ BreakLoop("session_unrecoverable")
                  /\ UNCHANGED <<n_items, item_idx>>
             ELSE \E n \in 0..MaxItems :
                     \* a freshly created browser shows no results page
                     /\ c.attempted => n = 0
                     /\ n_items' = n
                     /\ item_idx' = 0
                     \* an empty page is captured with save_debug_info;
                     \* if page_source raises there and again in the except
                     \* handler, the exception reaches the outer handler
                     /\ IF n = 0
                        THEN \E src \in {"ok", "raises"} :
                                IF src = "ok" THEN BreakLoop("no_items")
                                ELSE ReturnEmpty("exception")
                        ELSE /\ pc' = "items"
                             /\ UNCHANGED <<returned, cause>>
    /\ UNCHANGED <<attempt, page, all_items, page_loads, paced, eligible,
                   clsVars, retryVars, extVars,
                   runVars>>

\* one iteration of `for summary in item_summaries`, first half: the
\* is_driver_valid() of line 1027 (it cannot return False, so the `break`
\* under it is never taken)
ItemCheck ==
    /\ pc = "items"
    /\ used_absent' = FALSE
    /\ eligible' = FALSE
    /\ \E pr \in ProbeOutcomes, q \in QuitChoices(orphans), su \in SetupOutcomes :
          ApplyCheck(IsDriverValid(Session, pr, q, su))
    /\ pc' = "item_detail"
    /\ UNCHANGED <<attempt, page, n_items, item_idx, all_items, returned,
                   page_loads, cause, paced, clsVars, retryVars,
                   extVars,
                   runVars>>

\* second half: scrape_item_detail_page(summary['url']) and the is_valuable
\* test; every exception of the body is caught and the loop continues
ItemDetail ==
    /\ pc = "item_detail"
    \* valid_url: summary['url'] starts with base_url; if not,
    \* scrape_item_detail_page returns None before its sleep and its get
    /\ \E valid_url \in BOOLEAN, g \in GetOutcomes, found \in BOOLEAN,
          valuable \in BOOLEAN :
          LET got == valid_url /\ Responsive(driver) /\ g = "ok" /\ found IN
          /\ used_absent' = (valid_url /\ driver = "none")
          /\ paced' = (paced \/ valid_url)            \* time.sleep(3)
          /\ driver' = IF valid_url THEN AfterCommand(driver, g) ELSE driver
          \* detailed_info['card_analysis'] raises KeyError unless the
          \* detail dict carries that key
          /\ all_items' = IF got /\ "card_analysis" \in DetailKeys /\ valuable
                          THEN all_items + 1 ELSE all_items
          /\ eligible' = (got /\ valuable)
    /\ item_idx' = item_idx + 1
    /\ pc' = IF item_idx + 1 = n_items THEN "has_next" ELSE "items"
    /\ NoCheckStep
    /\ UNCHANGED <<orphans, session_retry_count, attempt, page, n_items,
                   returned, page_loads, cause, clsVars, retryVars, extVars,
                   runVars>>

\* has_next_page(): only NoSuchElementException is caught there; any other
\* exception reaches the outer handler of search_items
HasNextPage ==
    /\ pc = "has_next"
    /\ eligible' = FALSE
    /\ used_absent' = (driver = "none")
    /\ \E hn \in {"yes", "no", "dies"} :
          /\ driver' = AfterCommand(driver, IF hn = "dies" THEN "dies" ELSE "ok")
          /\ IF ~Responsive(driver) \/ hn = "dies"
             THEN ReturnEmpty("exception")
             ELSE IF hn = "no"
             THEN BreakLoop("no_more_pages")
             ELSE /\ pc' = "go_next"
                  /\ UNCHANGED <<returned, cause>>
    /\ NoCheckStep
    /\ UNCHANGED <<orphans, session_retry_count, attempt, page, n_items,
                   item_idx, all_items, page_loads, paced, clsVars,
                   retryVars, extVars,
                   runVars>>

\* go_to_next_page(): find the button, click, wait_for_page_ready();
\* then `page += 1`
GoToNextPage ==
    /\ pc = "go_next"
    /\ used_absent' = FALSE
    /\ \E click \in {"ok", "gone", "dies"}, p \in LoadedPages :
          /\ driver' = AfterCommand(driver, IF click = "dies" THEN "dies" ELSE "ok")
          /\ page_loads' = IF click = "ok" THEN page_loads + 1 ELSE page_loads
          /\ paced' = IF click = "ok" THEN FALSE ELSE paced
          /\ UNCHANGED eligible
          /\ cstate' = IF click = "ok" THEN CheckPageState(p) ELSE cstate
          /\ IF click = "ok" /\ WaitForPageReady(p)
             THEN /\ page' = page + 1
                  /\ pc' = "loop_head"
                  /\ UNCHANGED <<returned, cause>>
             ELSE /\ BreakLoop("next_page_failed")
                  /\ UNCHANGED page
    /\ NoCheckStep
    /\ UNCHANGED <<orphans, session_retry_count, attempt, n_items, item_idx,
                   all_items, cpage, cpc, csummaries, canalysis, csnapshot,
                   retryVars, extVars,
                   runVars>>

ClsIdle == /\ cpage = BlankPage
           /\ cpc = "off"
           /\ cstate = StateError
           /\ csummaries = NoSummaries
           /\ canalysis = "none"
           /\ csnapshot = FALSE

RetryIdle == /\ rloop = "none"
             /\ rpc = "off"
             /\ rattempt = 0
             /\ rtries = 0
             /\ rdelays = <<>>
             /\ rkinds = <<>>
             /\ routcome = "pending"

ExtIdle == /\ xfn = "none"
           /\ xpc = "off"
           /\ xurl = "none"
           /\ xfield = "none"
           /\ xcands = <<>>
           /\ xk = 0
           /\ xlookups = <<>>
           /\ xinfo = <<>>
           /\ xresult = "pending"
           /\ xstale = 0

\* no capture made, handle_maintenance never called
NoTime == 0 - 1
CapIdle == /\ now = 0
           /\ ticks = 0
           /\ files = {}
           /\ rewritten = {}
           /\ captures = 0
           /\ status_start = NoTime
           /\ first_detected = NoTime
           /\ maint_calls = 0
           /\ maint_result = "none"
TermIdle == /\ trunner = "none"
            /\ tidx = 1
            /\ tprocessed = {}
            /\ tfound = {}
            /\ tkept = {}
            /\ tstate = "finished"
RelIdle == rel_calls = 0 /\ rel_raised = FALSE
NoListing == [price |-> 0, ebay |-> 0, fetch |-> "none"]
ProfIdle == /\ min_profit_ratio = 20
            /\ include_grading = FALSE
            /\ lidx = 0
            /\ listing = NoListing
            /\ reported = FALSE
NoSave == [url |-> [host |-> "none", last |-> ""], title |-> "none",
           result |-> FALSE]
BmIdle == /\ bookmarks = << >>
          /\ bsaves = 0
          /\ blast = NoSave
WfIdle == /\ wrunner = "none"
          /\ wpc = "off"
          /\ wterms = 0
          /\ wclose = "not_called"
          /\ wresult = "none"
SlIdle == /\ max_listings_per_search = 1
          /\ sterm = 1
          /\ all_listings = << >>
          /\ unique_listings = << >>
          /\ spc = "off"
SnIdle == /\ fname = << >>
          /\ fout = << >>
          /\ fagain = << >>
          /\ fpc = "off"
AuxIdle == BmIdle /\ WfIdle /\ SlIdle /\ SnIdle
RunIdle == CapIdle /\ TermIdle /\ RelIdle /\ ProfIdle /\ AuxIdle

SessIdle == /\ driver = "live"
            /\ orphans = 0
            /\ session_retry_count = 0
            /\ pc = "idle"
            /\ attempt = 0
            /\ page = 1
            /\ n_items = 0
            /\ item_idx = 0
            /\ all_items = 0
            /\ returned = NotReturned
            /\ page_loads = 0
            /\ cause = "none"
            /\ lastCheck = NoCheck
            /\ evs_fail_streak = 0
            /\ attempts_while_dead = 0
            /\ used_absent = FALSE
            /\ paced = FALSE
            /\ eligible = FALSE

\* __init__ succeeded (setup_driver returned True), nothing searched yet
Init == SessIdle /\ ClsIdle /\ RetryIdle /\ ExtIdle /\ RunIdle

\* cleanup() called between two searches (__exit__, a test's `finally`)
ReleaseSession ==
    /\ pc \in {"idle", "returned"}
    /\ rel_calls < MaxReleases
    /\ rel_calls' = rel_calls + 1
    /\ \E q \in QuitChoices(orphans) :
          LET c == CleanupCall(Session, q) IN
          /\ driver' = c.sess.driver
          /\ orphans' = c.sess.orphans
          /\ session_retry_count' = c.sess.count
          /\ rel_raised' = c.raised
    /\ NoCheckStep
    /\ UNCHANGED <<searchVars, page_loads, cause, used_absent, paced, eligible,
                   clsVars,
                   retryVars, extVars, capVars, termVars, profVars, auxVars>>

Next == \/ SearchItemsStart
        \/ ReleaseSession
        \/ Navigate
        \/ WaitReady
        \/ LoopHead
        \/ Summaries
        \/ ItemCheck
        \/ ItemDetail
        \/ HasNextPage
        \/ GoToNextPage

Spec == Init /\ [][Next]_vars

(***************************************************************************)
(* Claims settled under Spec                                               *)
(***************************************************************************)

\* C1: with max_pages = N, one run of search_items performs at most N
\* search-result page loads (the initial driver.get plus every
\* go_to_next_page navigation), however long has_next_page says "yes".
C1_PageLoadsBounded == page_loads <= max_pages

\* browser processes that exist: the one self.driver holds, and those a
\* failed quit() left running
LiveBrowsers == orphans + (IF Responsive(driver) THEN 1 ELSE 0)

\* C4: at most one browser session is live at any time; a new driver is
\* created only after the old one has been quit and cleared.
C4_SingleLiveBrowser == LiveBrowsers <= 1

ReconnectOutcomes == {"recreated", "recreate_failed",
                      "reconnected", "reconnect_failed"}

\* C5: while the session stays dead at most max_session_retries attempts to
\* create a driver are made, each one after the fixed retry delay, and past
\* the bound the check fails without attempting.
C5_ReconnectBounded ==
    /\ attempts_while_dead <= max_session_retries
    /\ lastCheck.outcome \in ReconnectOutcomes => lastCheck.slept

C7_SuccessMeansLiveDriver ==
    /\ (lastCheck.result /\ lastCheck.outcome \in ReconnectOutcomes)
           => driver = "live"
    /\ ~used_absent

\* C8: a search that ended because the session could not be recovered is
\* not reported as the empty list a search without results returns.
C8_UnrecoverableNotEmptySuccess ==
    (returned.done /\ cause = "session_unrecoverable")
        => ~(returned.kind = "list" /\ returned.len = 0)

\* C11: a step that navigates to the next page goes on to process it only if
\* the classifier's result for that page is READY or NO_RESULTS; on any other
\* result the search returns, so no further page is processed or loaded.
C11_NextPageNeedsReady ==
    [][(pc = "go_next" /\ page_loads' = page_loads + 1)
          => IF cstate'.state \in {"ready", "no_results"}
             THEN pc' = "loop_head" /\ page' = page + 1
             ELSE pc' = "returned" /\ returned'.done /\ page' = page]_vars

\* a next page was loaded, classified as an error, and the search returned
C11_Witness ==
    /\ pc = "returned"
    /\ cause = "next_page_failed"
    /\ page_loads = 2
    /\ cstate.state = "error"

(***************************************************************************)
(* SpecClassify: check_page_state and the extraction over every synthetic  *)
(* page                                                                    *)
(***************************************************************************)
InitClassify ==
    /\ SessIdle
    /\ RetryIdle
    /\ ExtIdle
    /\ RunIdle
    /\ (cpage \in Pages \/ cpage \in FixturePages)
    /\ cpc = "start"
    /\ cstate = StateError
    /\ csummaries = NoSummaries
    /\ canalysis = "none"
    /\ csnapshot = FALSE

\* state, is_error = self.check_page_state()
Classify ==
    /\ cpc = "start"
    /\ cstate' = CheckPageState(cpage)
    /\ csnapshot' = SnapshotWritten(cpage)
    /\ cpc' = "classified"
    /\ UNCHANGED <<cpage, csummaries, canalysis, sessVars, searchVars,
                   histVars, retryVars, extVars,
                   runVars>>

\* the extraction step search_items runs on the classified page
Extract ==
    /\ cpc = "classified"
    /\ \E src \in {"ok", "raises"} :
          csummaries' = IF src = "ok" THEN FirstPageSummaries(cpage)
                        ELSE SummariesSourceLost(cpage)
    /\ cpc' = "done"
    /\ UNCHANGED <<cpage, cstate, canalysis, csnapshot, sessVars, searchVars,
                   histVars, retryVars, extVars,
                   runVars>>

\* analysis = self.analyze_page_content() on the same page
Analyze ==
    /\ cpc = "done"
    /\ canalysis' = AnalyzePageContent(cpage)
    /\ cpc' = "analyzed"
    /\ UNCHANGED <<cpage, cstate, csummaries, csnapshot, sessVars, searchVars,
                   histVars, retryVars, extVars,
                   runVars>>

NextClassify == Classify \/ Extract \/ Analyze

SpecClassify == InitClassify /\ [][NextClassify]_vars

\* a no-results marker the classifier knows: one of its locators matches, or
\* one of its phrases is in the page source
HasNoResultsMarker(p) == p.nrSel = "present" \/ HasNoResultsText(p)

\* C2: every page that holds a no-results marker and no item cards is
\* classified NO_RESULTS, with or without the item container (pages on
\* which the driver itself faults are left out).
C2_MarkerMeansNoResults ==
    (cpc # "start" /\ cpage.fault = "none" /\ HasNoResultsMarker(cpage)
        /\ cpage.cards = 0)
        => cstate.state = "no_results"

\* C3: a page that contains the phrase "no results found", has no item
\* container and loads without a driver fault is classified NO_RESULTS, and
\* the extraction then returns an empty sequence without raising.
C3_NoResultsFoundPhrase ==
    (cpc = "done" /\ cpage.fault = "none" /\ cpage.docReady
        /\ "no results found" \in cpage.text
        /\ ~cpage.container /\ ~cpage.altContainer)
        => /\ cstate.state = "no_results"
           /\ csummaries = NoSummaries

\* the page reached the container step of check_page_state: no fault, the
\* document became ready and the first scan found no no-results evidence
ReachedContainerStep(p) ==
    /\ p.fault = "none"
    /\ p.docReady
    /\ ~HasNoResultsMarker(p)

\* no-results evidence on the page as it is when it is re-checked: a locator
\* or a phrase, rendered late or not
NoResultsEvidenceNow(p) ==
    \/ p.nrSel \in {"present", "late"}
    \/ HasNoResultsText(p)
    \/ p.lateText

\* C12: container present and zero cards: the classifier re-checks the
\* no-results evidence (locators or phrases, as the page then is) and returns
\* NO_RESULTS if there is any, ERROR otherwise.
C12_EmptyContainerRecheck ==
    (cpc # "start" /\ ReachedContainerStep(cpage)
        /\ cpage.container /\ cpage.cards = 0)
        => cstate = IF NoResultsEvidenceNow(cpage) THEN StateNoResults
                    ELSE StateError

\* C13: container absent: ERROR when none of header, footer, search box and
\* category nav is present; when at least one is, the no-results evidence is
\* re-checked and gives NO_RESULTS if found, ERROR otherwise.
C13_NoContainerEssentials ==
    (cpc # "start" /\ ReachedContainerStep(cpage) /\ ~cpage.container)
        => cstate = IF ~(cpage.header \/ cpage.footer \/ cpage.searchBox
                           \/ cpage.categoryMenu)
                    THEN StateError
                    ELSE IF NoResultsEvidenceNow(cpage) THEN StateNoResults
                    ELSE StateError

\* C14: a page showing a CAPTCHA phrase, with no no-results marker and no
\* item container with cards, is classified CAPTCHA.
C14_CaptchaClassified ==
    (cpc # "start" /\ ReachedContainerStep(cpage)
        /\ "captcha" \in cpage.text /\ ~NoResultsEvidenceNow(cpage)
        /\ ~(cpage.container /\ cpage.cards > 0))
        => cstate.state = "captcha"

\* the call makes the driver or file operation that faults on page p
CheckPageStateMeetsFault(p) ==
    \/ p.fault \in {"page_source", "file_write", "screenshot"}
    \/ (p.fault = "essentials" /\ p.docReady /\ ~HasNoResultsMarker(p)
           /\ ~p.container)
AnalyzePageContentMeetsFault(p) ==
    \/ p.fault \in {"page_source", "file_write", "screenshot"}
    \/ (p.fault = "essentials" /\ p.docReady)

\* C15: whenever a driver or file operation faults during a classification,
\* check_page_state and analyze_page_content return the ERROR state as a
\* value (neither raises, neither reports another state).
C15_FaultGivesError ==
    cpc = "analyzed"
        => /\ (CheckPageStateMeetsFault(cpage) => cstate = StateError)
           /\ (AnalyzePageContentMeetsFault(cpage) => canalysis = "error")

\* C16: every classification whose result is neither READY nor NO_RESULTS
\* wrote a full-page snapshot before it returned.
C16_SnapshotOnFailure ==
    (cpc # "start" /\ cstate.state \notin {"ready", "no_results"})
        => csnapshot

(***************************************************************************)
(* SpecRetry: the retry loops.  Time is counted in half seconds.           *)
(***************************************************************************)
\* PriceComparator.retry_delays = [1, 2, 5, 10] seconds
retry_delays == <<2, 4, 10, 20>>
\* PriceComparator.max_retries
get_page_max_retries == 3
\* time.sleep(2) of both navigation loops, in half seconds
NavSleep == 2 * nav_retry_sleep
\* random.uniform(0, 2): 0, 0.5, 1 or 1.5 seconds
Jitters == 0..3

RetryLoops == {"search_navigation", "detail_navigation", "get_page"}

\* what one attempt of a navigation loop can meet: success, a timeout, a
\* lost driver connection, a stale reference, any other exception, and (detail
\* page only) an error or invalid page that was loaded
NavKinds(l) == {"ok", "timeout", "disconnect", "stale", "fatal"}
                 \cup (IF l = "detail_navigation" THEN {"error_page"} ELSE {})
\* what one attempt of _get_page can meet
GetPageKinds == {"ok", "connection_error", "proxy_error", "request_error",
                 "http_404", "http_403_429", "http_5xx", "bad_content",
                 "other_exception"}

\* failures the retry layer is meant to retry
RetryableKinds == {"timeout", "disconnect", "stale", "connection_error"}
\* failures it is meant to give up on at once
FatalKinds == {"fatal", "request_error"}

\* one iteration of `for attempt in range(max_retries)` of search_items and
\* scrape_item_detail_page: "success" (break), "failure" (return [] / None)
\* or "retry" (sleep(2), next iteration)
NavAttempt(l, a, k) ==
    CASE k = "ok"         -> "success"
      [] k = "error_page" -> "failure"
      [] OTHER            -> IF a = nav_max_retries - 1 THEN "failure"
                             ELSE "retry"

\* one iteration of `for retry in range(self.max_retries)` of _get_page
GetPageAttempt(a, k) ==
    CASE k = "ok"              -> "success"
      [] k = "http_404"        -> "failure"
      [] k = "other_exception" -> "raised"
      [] OTHER                 -> IF a < get_page_max_retries - 1 THEN "retry"
                                  ELSE "failure"

\* the delay _get_page sleeps before iteration a > 0
GetPageDelay(a, j) == retry_delays[Min(a - 1, Len(retry_delays) - 1) + 1] + j

InitRetry ==
    /\ SessIdle
    /\ ClsIdle
    /\ ExtIdle
    /\ RunIdle
    /\ rloop \in RetryLoops
    /\ rpc = "try"
    /\ rattempt = 0
    /\ rtries = 0
    /\ rdelays = <<>>
    /\ rkinds = <<>>
    /\ routcome = "pending"

RetryStep(r) ==
    /\ rtries' = rtries + 1
    /\ IF r = "retry"
       THEN /\ rattempt' = rattempt + 1
            /\ UNCHANGED <<rpc, routcome>>
       ELSE /\ rpc' = "done"
            /\ routcome' = r
            /\ UNCHANGED rattempt

\* search_items lines 982-995 and scrape_item_detail_page lines 1091-1141
NavigationAttempt ==
    /\ rpc = "try"
    /\ rloop \in {"search_navigation", "detail_navigation"}
    /\ \E k \in NavKinds(rloop) :
          LET r == NavAttempt(rloop, rattempt, k) IN
          /\ rkinds' = Append(rkinds, k)
          /\ rdelays' = IF r = "retry" THEN Append(rdelays, NavSleep)
                        ELSE rdelays
          /\ RetryStep(r)
    /\ UNCHANGED <<rloop, sessVars, searchVars, histVars, clsVars, extVars,
                   runVars>>

\* PriceComparator._get_page lines 213-281
PageFetchAttempt ==
    /\ rpc = "try"
    /\ rloop = "get_page"
    /\ \E k \in GetPageKinds, j \in Jitters :
          /\ rdelays' = IF rattempt > 0
                        THEN Append(rdelays, GetPageDelay(rattempt, j))
                        ELSE rdelays
          /\ rkinds' = Append(rkinds, k)
          /\ RetryStep(GetPageAttempt(rattempt, k))
    /\ UNCHANGED <<rloop, sessVars, searchVars, histVars, clsVars, extVars,
                   runVars>>

NextRetry == NavigationAttempt \/ PageFetchAttempt

SpecRetry == InitRetry /\ [][NextRetry]_vars

NonDecreasing(seq) ==
    \A i \in 1..Len(seq) : \A j \in 1..Len(seq) : i < j => seq[i] <= seq[j]

\* C9: a retry loop whose every attempt fails with a retryable failure makes
\* exactly three tries, sleeps before each retry a delay not smaller than the
\* one before, and returns the failure outcome.
C9_ThreeTriesNonDecreasingDelay ==
    (rpc = "done" /\ \A i \in 1..Len(rkinds) : rkinds[i] \in RetryableKinds)
        => /\ rtries = 3
           /\ Len(rdelays) = 2
           /\ NonDecreasing(rdelays)
           /\ routcome = "failure"

\* C10: only a retryable failure leads to another attempt: an attempt that
\* met a fatal failure is the last one and ends the operation.
C10_FatalReturnsImmediately ==
    \A i \in 1..Len(rkinds) :
        rkinds[i] \in FatalKinds => (i = Len(rkinds) /\ rpc = "done")

(***************************************************************************)
(* SpecExtract: the selector loops of extract_card_info and                *)
(* scrape_item_detail_page                                                 *)
(***************************************************************************)
CardFields == <<"title", "price", "thumbnail_url">>
DetailFields == <<"description", "seller_condition", "yahoo_link",
                  "main_image_url">>
FieldsOf(fn) == IF fn = "card" THEN CardFields ELSE DetailFields
FieldIndex(fn, f) == CHOOSE i \in 1..Len(FieldsOf(fn)) : FieldsOf(fn)[i] = f

\* length of each field's candidate selector list
NCand(f) == CASE f = "description" -> 7
              [] f = "yahoo_link"  -> 3
              [] OTHER             -> 4

\* keys of card_info / item_details; "url" is filled by the title loop
InfoKeys(fn) == IF fn = "card"
                THEN {"title", "url", "price", "thumbnail_url"}
                ELSE {"description", "seller_condition", "yahoo_link",
                      "main_image_url"}
\* None, or the key is absent
NoInfo(fn) == [f \in InfoKeys(fn) |-> "null"]

\* stale events are counted up to this many
MaxStale == 2

\* what reading the located element gives: a non-empty value, an empty one
\* (or None), or StaleElementReferenceException
Reads == {"value", "empty", "stale"}
\* what get_attribute('href') of the title element gives: an absolute
\* http(s) URL, a string that is not one (the raw attribute of an element that
\* has no href property, such as the h3 candidate), None, or a stale error
Hrefs == {"absolute", "relative", "null", "stale"}
\* the url argument: under base_url, another absolute URL, relative, or None
DetailUrls == {"buyee", "other", "relative", "null"}

\* wait_for_element(by, value, parent=card): WebDriverWait.until() takes the
\* parent as its message argument, so the condition searches the whole
\* document; `elsewhere` says that the document's first match belongs to
\* another card
WaitForElement_Scoped(inScope, elsewhere) ==
    IF inScope THEN "own" ELSE "none"

WaitForElement(inScope, elsewhere) ==
    IF elsewhere THEN "foreign" ELSE IF inScope THEN "own" ELSE "none"

\* the value stored for a located element
Val(got, read) == IF read = "empty" THEN "empty" ELSE got

\* one iteration of a selector loop: "break", "continue" (next selector) or
\* "raise" (the exception leaves the loop and reaches the outer handler)
LoopStep(fn, f, got, read, href) ==
    IF got = "none" THEN "continue"
    ELSE IF fn = "card"
    THEN CASE f = "title" -> IF read = "stale" \/ href = "stale"
                             THEN "continue" ELSE "break"
           [] OTHER       -> IF read = "value" THEN "break" ELSE "continue"
    ELSE IF read = "stale" THEN "raise"
    ELSE IF f = "main_image_url" /\ read = "empty" THEN "continue"
    ELSE "break"

\* card_info / item_details after that iteration
LoopAssign(fn, f, info, got, read, href) ==
    IF got = "none" \/ read = "stale" THEN info
    ELSE IF f = "title"
    THEN [info EXCEPT !.title = Val(got, read),
                      !.url = IF href = "stale" THEN @ ELSE href]
    ELSE IF fn = "card" /\ read = "empty" THEN info
    ELSE [info EXCEPT ![f] = Val(got, read)]

InitExtract ==
    /\ SessIdle
    /\ ClsIdle
    /\ RetryIdle
    /\ RunIdle
    /\ xfn \in {"card", "detail"}
    /\ xpc = IF xfn = "card" THEN "attach" ELSE "url"
    /\ xurl \in IF xfn = "card" THEN {"none"} ELSE DetailUrls
    /\ xfield = FieldsOf(xfn)[1]
    /\ xcands \in [1..NCand(FieldsOf(xfn)[1]) -> BOOLEAN]
    /\ xk = 1
    /\ xlookups = <<>>
    /\ xinfo = NoInfo(xfn)
    /\ xresult = "pending"
    /\ xstale = 0

ExtractReturn(r) ==
    /\ xresult' = r
    /\ xpc' = "done"
    /\ UNCHANGED <<xfn, xurl, xfield, xcands, xk, xlookups>>

\* get_item_summaries_from_search_page: `if not self.is_element_attached(card):
\* continue`
AttachCheck ==
    /\ xpc = "attach"
    /\ \E attached \in BOOLEAN :
          IF attached
          THEN /\ xpc' = "lookup"
               /\ UNCHANGED <<xfn, xurl, xfield, xcands, xk, xlookups, xinfo,
                              xresult, xstale>>
          ELSE /\ ExtractReturn("skipped")
               /\ xstale' = Min(xstale + 1, MaxStale)
               /\ UNCHANGED xinfo
    /\ UNCHANGED <<sessVars, searchVars, histVars, clsVars, retryVars,
                   runVars>>

\* scrape_item_detail_page: `if not url or not url.startswith(self.base_url)`
DetailUrlCheck ==
    /\ xpc = "url"
    /\ IF xurl = "buyee"
       THEN /\ xpc' = "lookup"
            /\ UNCHANGED <<xfn, xurl, xfield, xcands, xk, xlookups, xresult>>
       ELSE ExtractReturn("none")
    /\ UNCHANGED <<xinfo, xstale, sessVars, searchVars, histVars, clsVars,
                   retryVars,
                   runVars>>

\* one iteration of `for selector in <field>_selectors`
Lookup ==
    /\ xpc = "lookup"
    /\ \E elsewhere \in (IF xfn = "card" THEN BOOLEAN ELSE {FALSE}),
          read \in Reads,
          href \in (IF xfield = "title" THEN Hrefs ELSE {"na"}) :
          LET got  == WaitForElement(xcands[xk], elsewhere)
              step == LoopStep(xfn, xfield, got, read, href)
              stale == got # "none" /\ (read = "stale" \/ href = "stale")
          IN  /\ xlookups' = Append(xlookups,
                                    [cand |-> xk, got |-> got,
                                     read |-> IF got = "none" THEN "na"
                                              ELSE read])
              /\ xinfo' = LoopAssign(xfn, xfield, xinfo, got, read, href)
              /\ xstale' = IF stale THEN Min(xstale + 1, MaxStale) ELSE xstale
              /\ CASE step = "raise" ->
                        \* outer `except Exception: return None`
                        /\ xpc' = "done"
                        /\ xresult' = "none"
                        /\ UNCHANGED xk
                   [] step = "break" \/ xk = NCand(xfield) ->
                        /\ xpc' = "resolved"
                        /\ UNCHANGED <<xk, xresult>>
                   [] OTHER ->
                        /\ xk' = xk + 1
                        /\ UNCHANGED <<xpc, xresult>>
    /\ UNCHANGED <<xfn, xurl, xfield, xcands, sessVars, searchVars, histVars,
                   clsVars, retryVars,
                   runVars>>

\* the code after a selector loop: the critical-field test, the price
\* default, then the next field's loop or the return of the record
FieldDone ==
    /\ xpc = "resolved"
    /\ LET i == FieldIndex(xfn, xfield)
           info == IF xfield = "price" /\ xinfo.price = "null"
                   THEN [xinfo EXCEPT !.price = "zero"] ELSE xinfo
       IN  IF \/ (xfield = "title"
                    /\ (xinfo.title \in {"null", "empty"} \/ xinfo.url = "null"))
              \/ (xfield = "description" /\ xinfo.description = "null")
           THEN /\ ExtractReturn("none")
                /\ UNCHANGED xinfo
           ELSE IF i = Len(FieldsOf(xfn))
           THEN /\ ExtractReturn("record")
                /\ xinfo' = info
           ELSE /\ xfield' = FieldsOf(xfn)[i + 1]
                /\ xcands' \in [1..NCand(FieldsOf(xfn)[i + 1]) -> BOOLEAN]
                /\ xk' = 1
                /\ xlookups' = <<>>
                /\ xinfo' = info
                /\ xpc' = "lookup"
                /\ UNCHANGED <<xfn, xurl, xresult>>
    /\ UNCHANGED <<xstale, sessVars, searchVars, histVars, clsVars, retryVars,
                   runVars>>

NextExtract == AttachCheck \/ DetailUrlCheck \/ Lookup \/ FieldDone

SpecExtract == InitExtract /\ [][NextExtract]_vars

\* candidate k is the only one that matches inside the field's scope
OnlyCandidate(k) ==
    xcands[k] /\ \A j \in DOMAIN xcands : j # k => ~xcands[j]

\* C17: when only candidate k of a field's list matches (and no read was
\* empty or stale), the loop made exactly the lookups 1..k and yields the
\* value of candidate k's own element.
C17_FirstMatchWins ==
    (xpc = "resolved"
        /\ \A i \in 1..Len(xlookups) : xlookups[i].read \notin {"empty", "stale"})
        => \A k \in DOMAIN xcands :
              OnlyCandidate(k) => /\ Len(xlookups) = k
                                  /\ xlookups[k].got = "own"
                                  /\ xinfo[xfield] = "own"

\* C32: a lookup given a parent scope returns only an element inside that
\* scope: no field of a card's record is read from an element of another
\* card.
C32_LookupStaysInScope ==
    xfn = "card" => \A f \in DOMAIN xinfo : xinfo[f] # "foreign"

\* the critical fields of the record are non-null
CriticalOk ==
    IF xfn = "card"
    THEN xinfo.title \notin {"null", "empty"} /\ xinfo.url # "null"
    ELSE xinfo.description # "null"

\* C18: a record is returned exactly when the critical fields resolved:
\* title and detail URL for a card, the description for a detail page;
\* nothing that happens to a non-critical field rejects the record.
C18_RejectedIffCriticalNull ==
    xpc = "done" => (xresult = "record" <=> CriticalOk)

\* C19: the first stale-element event makes the pipeline resolve the same
\* element once more: it stays at the same card and selector, and the record
\* is not yet rejected.
C19_StaleReresolvedOnce ==
    [][(xstale = 0 /\ xstale' = 1)
          => (xpc' = xpc /\ xfield' = xfield /\ xk' = xk
                /\ xresult' = "pending")]_vars

\* C20: every listing summary returned carries an absolute detail URL.
C20_SummaryUrlAbsolute ==
    (xpc = "done" /\ xfn = "card" /\ xresult = "record")
        => xinfo.url = "absolute"
\* the fixture of the end-to-end scenario: the item container with three
\* item cards whose locators all resolve, a loaded document, no driver fault
\* and no no-results marker
ThreeCardFixture(p) ==
    /\ p.fault = "none" /\ p.docReady
    /\ p.container /\ p.cards = 3 /\ p.okCards = 3
    /\ ~HasNoResultsMarker(p)

\* C21: on a page with the item container and 3 item cards where all
\* locators resolve, the classifier returns READY and the extraction of
\* that page returns exactly 3 listing summaries (a summary is only ever
\* appended with a non-null title and detail URL) without raising.
C21_ThreeCardsReadyThreeSummaries ==
    (cpc \in {"done", "analyzed"} /\ ThreeCardFixture(cpage))
        => /\ cstate = StateReady
           /\ csummaries = [raised |-> FALSE, n |-> 3]

\* C21 witness: the three-card fixture has been classified READY and its
\* extraction returned three summaries
C21_Witness ==
    /\ cpc = "done" /\ ThreeCardFixture(cpage)
    /\ cstate.state = "ready" /\ csummaries.n = 3

\* C25: debug capture is purely observational: a failure while capturing,
\* including a failure to read the page source handed to save_debug_info,
\* never propagates to the caller and never changes what the calling
\* operation returns compared with a run in which the capture succeeded.
C25_CaptureObservational ==
    /\ (cpc # "start" /\ cpage.fault \in {"file_write", "screenshot"})
          => cstate = CheckPageState([cpage EXCEPT !.fault = "none"])
    /\ cpc \in {"done", "analyzed"}
          => ~csummaries.raised /\ csummaries = FirstPageSummaries(cpage)

\* C33: check_page_state returns only states of the closed set, and its
\* error flag is true exactly when the returned state is the error state;
\* wait_for_page_ready says True exactly for ready and no_results, so the
\* extraction that follows it runs on no page classified as an error.
C33_ClosedStatesFlagMatches ==
    cpc # "start"
        => /\ cstate.state \in ReturnedStates
           /\ cstate.is_error <=> cstate.state = "error"
           /\ WaitForPageReady(cpage) <=> ~cstate.is_error
           /\ (cpc \in {"done", "analyzed"} /\ cstate.is_error)
                 => csummaries = NoSummaries

\* C33 witness: a page with the item container and no cards was classified
\* as an error, flagged, and the extraction was not run on it
C33_Witness ==
    /\ cpc = "done"
    /\ cpage.fault = "none" /\ cpage.container /\ cpage.cards = 0
    /\ cstate.state = "error" /\ cstate.is_error
    /\ csummaries = NoSummaries

(***************************************************************************)
(* SpecCapture: the debug artifacts written by save_debug_info,            *)
(* check_page_state and handle_maintenance, and the maintenance cooldown   *)
(***************************************************************************)
\* `maintenance_duration.total_seconds() > 7200`, in half seconds
maintenance_ceiling == 14400
\* `time.sleep(1800)`, in half seconds
maintenance_wait == 3600
\* calls of handle_maintenance in one run
MaxMaintCalls == 6
\* clock steps of half a second between calls
MaxTicks == 2
\* captures in one run
MaxCaptures == 3

\* datetime.now().strftime("%Y%m%d_%H%M%S"): the clock cut to whole seconds
Timestamp(t) == t \div 2

\* identifiers handed to save_debug_info: f"search_page_{page_number}" and
\* the last segment of a detail URL
Identifiers == {"search_page_1", "m1?conversionType=x", "m1_conversionType=x"}
ErrorKinds == {"no_cards", "extraction_error"}
\* sanitize_filename(): re.sub(r'[<>:"/\\|?*]', '_', filename)
SanitizeFilename(id) == IF id = "m1?conversionType=x"
                        THEN "m1_conversionType=x" ELSE id

\* f"{safe_identifier}_{error_type}_{timestamp}.html"
DebugPath(id, kind, t) == <<SanitizeFilename(id), kind, Timestamp(t)>>
\* f'full_page_source_{timestamp}.html'
SnapshotPath(t) == <<"full_page_source", "", Timestamp(t)>>
\* f"maintenance_page_{timestamp}.html"
MaintenancePath(t) == <<"maintenance_page", "", Timestamp(t)>>

\* open(path, "w") and write: the file is created, or truncated and
\* written again
WriteFile(path) ==
    /\ files' = files \cup {path}
    /\ rewritten' = IF path \in files THEN rewritten \cup {path} ELSE rewritten

InitCapture == SessIdle /\ ClsIdle /\ RetryIdle /\ ExtIdle /\ CapIdle /\ TermIdle
                 /\ RelIdle /\ ProfIdle /\ AuxIdle

CoreUnchanged == UNCHANGED <<sessVars, searchVars, histVars, clsVars,
                             retryVars, extVars>>
CaptureOnly == CoreUnchanged /\ UNCHANGED <<termVars, relVars, profVars, auxVars>>

\* half a second passes
Tick ==
    /\ ticks < MaxTicks
    /\ ticks' = ticks + 1
    /\ now' = now + 1
    /\ UNCHANGED <<files, rewritten, captures, status_start, first_detected,
                   maint_calls, maint_result>>
    /\ CaptureOnly

\* save_debug_info(identifier, error_type, page_source): the whole body is
\* in one try; makedirs or open may raise, which is logged and swallowed
SaveDebugInfo ==
    /\ captures < MaxCaptures
    /\ captures' = captures + 1
    /\ \E id \in Identifiers, kind \in ErrorKinds, io \in {"ok", "raises"} :
          IF io = "ok" THEN WriteFile(DebugPath(id, kind, now))
          ELSE UNCHANGED <<files, rewritten>>
    /\ UNCHANGED <<now, ticks, status_start, first_detected, maint_calls,
                   maint_result>>
    /\ CaptureOnly

\* the first lines of check_page_state(): the page source is written to
\* full_page_source_{timestamp}.html
SnapshotPageState ==
    /\ captures < MaxCaptures
    /\ captures' = captures + 1
    /\ \E io \in {"ok", "raises"} :
          IF io = "ok" THEN WriteFile(SnapshotPath(now))
          ELSE UNCHANGED <<files, rewritten>>
    /\ UNCHANGED <<now, ticks, status_start, first_detected, maint_calls,
                   maint_result>>
    /\ CaptureOnly

\* the first line handle_maintenance() writes to maintenance_status.txt,
\* opened with "w" on every call: "Maintenance detected at: <now>"
HandleMaintenanceStart(t) == t

\* handle_maintenance(search_term) while the site is in maintenance: the
\* page is saved, the status file is written and read back, and the call
\* either returns False or sleeps 30 minutes and returns True
HandleMaintenance ==
    /\ maint_calls < MaxMaintCalls
    /\ maint_result # "stop"
    /\ maint_calls' = maint_calls + 1
    /\ first_detected' = IF first_detected = NoTime THEN now ELSE first_detected
    /\ WriteFile(MaintenancePath(now))
    /\ status_start' = HandleMaintenanceStart(now)
    \* maintenance_duration = datetime.now() - maintenance_start
    /\ IF now - status_start' > maintenance_ceiling
       THEN /\ maint_result' = "stop"
            /\ now' = now
       ELSE /\ maint_result' = "wait"
            /\ now' = now + maintenance_wait
    /\ UNCHANGED <<ticks, captures>>
    /\ CaptureOnly

NextCapture == Tick \/ SaveDebugInfo \/ SnapshotPageState \/ HandleMaintenance

SpecCapture == InitCapture /\ [][NextCapture]_vars

\* C22: while the site stays in maintenance, a call of handle_maintenance
\* made more than the ceiling (2 hours) after maintenance was first
\* detected returns False instead of waiting another 30 minutes.
C22_MaintenanceGivesUp ==
    [][(maint_calls' = maint_calls + 1 /\ first_detected # NoTime
          /\ now - first_detected > maintenance_ceiling)
       => maint_result' = "stop"]_vars

\* C26: debug artifact files are write-once: no artifact path that has
\* been written is ever opened for writing again.
C26_ArtifactsWriteOnce == rewritten = {}

(***************************************************************************)
(* SpecTerms: the loop over the search terms, in main() of buyee_scraper   *)
(* and in CoreEngine.search_listings                                       *)
(***************************************************************************)
\* search terms of one run
MaxTerms == 5
Terms == 1..MaxTerms
Runners == {"main", "engine"}
\* what the search of one term does: it returns listings, it returns an
\* empty list (an error or no-results page), or it raises
TermOutcomes == {"listings", "empty", "raises"}

TermsOnly == CoreUnchanged /\ UNCHANGED <<capVars, relVars, profVars, auxVars>>

InitTerms ==
    /\ SessIdle /\ ClsIdle /\ RetryIdle /\ ExtIdle /\ CapIdle /\ RelIdle
    /\ ProfIdle /\ AuxIdle
    /\ trunner \in Runners
    /\ tidx = 1
    /\ tprocessed = {}
    /\ tfound = {}
    /\ tkept = {}
    /\ tstate = "running"

\* one iteration of `for search_term in SEARCH_TERMS` in main(): the body
\* is in a try of its own, whose handler logs and continues; search_items
\* has saved the term's listings before it returns them
MainTerm ==
    /\ trunner = "main" /\ tstate = "running" /\ tidx <= MaxTerms
    /\ \E o \in TermOutcomes :
          /\ tfound' = IF o = "listings" THEN tfound \cup {tidx} ELSE tfound
          /\ tkept' = IF o = "listings" THEN tkept \cup {tidx} ELSE tkept
    /\ tprocessed' = tprocessed \cup {tidx}
    /\ tidx' = tidx + 1
    /\ UNCHANGED <<trunner, tstate>>
    /\ TermsOnly

\* the loop of main() is over
MainEnd ==
    /\ trunner = "main" /\ tstate = "running" /\ tidx > MaxTerms
    /\ tstate' = "finished"
    /\ UNCHANGED <<trunner, tidx, tprocessed, tfound, tkept>>
    /\ TermsOnly

\* one iteration of `for i, term in enumerate(search_terms, 1)` in
\* search_listings: the whole loop is in one try, whose handler returns []
EngineTerm ==
    /\ trunner = "engine" /\ tstate = "running" /\ tidx <= MaxTerms
    /\ \E o \in TermOutcomes :
          /\ tfound' = IF o = "listings" THEN tfound \cup {tidx} ELSE tfound
          /\ IF o = "raises"
             THEN /\ tkept' = {}                       \* return []
                  /\ tstate' = "finished"
                  /\ tidx' = tidx
             ELSE /\ tkept' = IF o = "listings" THEN tkept \cup {tidx}
                              ELSE tkept               \* all_listings.extend
                  /\ tstate' = "running"
                  /\ tidx' = tidx + 1
    /\ tprocessed' = tprocessed \cup {tidx}
    /\ UNCHANGED trunner
    /\ TermsOnly

\* after the loop: duplicates are removed and unique_listings is returned
EngineEnd ==
    /\ trunner = "engine" /\ tstate = "running" /\ tidx > MaxTerms
    /\ tstate' = "finished"
    /\ UNCHANGED <<trunner, tidx, tprocessed, tfound, tkept>>
    /\ TermsOnly

NextTerms == MainTerm \/ MainEnd \/ EngineTerm \/ EngineEnd

SpecTerms == InitTerms /\ [][NextTerms]_vars

\* C23: a failure while processing one search term aborts only that term:
\* when the run is over every term was processed and the listings found
\* for the other terms are still held.
C23_FailureAbortsOnlyTerm ==
    tstate = "finished" /\ trunner # "none"
        => tprocessed = Terms /\ tfound \subseteq tkept

(***************************************************************************)
(* search_items: pacing, release of the session, termination               *)
(***************************************************************************)
\* C24: in every run of search_items, when go_to_next_page loads page n+1
\* at least one pacing sleep has been executed since page n was loaded.
C24_PacedPageTransitions ==
    [][(pc = "go_next" /\ page_loads' = page_loads + 1) => paced]_vars

\* steps one page of the loop can take: the loop test, the extraction, two
\* per item, has_next_page and go_to_next_page
PerPage == 2 * MaxItems + 4

\* an upper bound of the steps search_items still has to take
SearchRank ==
    LET pagesLeft == IF page <= max_pages THEN max_pages + 1 - page ELSE 0
        head == 2 * MaxItems + 4
    IN CASE pc = "navigate"    -> max_pages * PerPage + head + 1
                                     + (nav_max_retries - attempt)
         [] pc = "wait_ready"  -> max_pages * PerPage + head + 1
         [] pc = "loop_head"   -> pagesLeft * PerPage + head
         [] pc = "summaries"   -> pagesLeft * PerPage + head - 1
         [] pc = "items"       -> pagesLeft * PerPage + 2 * (n_items - item_idx) + 2
         [] pc = "item_detail" -> pagesLeft * PerPage + 2 * (n_items - item_idx) + 1
         [] pc = "has_next"    -> pagesLeft * PerPage + 2
         [] pc = "go_next"     -> pagesLeft * PerPage + 1
         [] OTHER              -> 0

\* the steps in which search_items works on a results page
ProcessingPage == pc \in {"summaries", "items", "item_detail", "has_next",
                          "go_next"}

\* C28: search_items always terminates: every step of a running search
\* strictly lowers a natural-number bound on the steps that remain (so the
\* search returns after finitely many driver calls), and no page beyond
\* max_pages is ever processed.
C28_SearchTerminates ==
    [][pc \notin {"idle", "returned"}
       => /\ SearchRank' < SearchRank
          /\ SearchRank' >= 0
          /\ ProcessingPage' => page' <= max_pages]_vars

\* C28 witness: a search went through max_pages pages, each with a next
\* page, and returned when the page limit ended the loop
C28_Witness ==
    pc = "returned" /\ cause = "max_pages" /\ page = max_pages + 1

\* C29: a search always returns a list, never None and never an exception,
\* for every site and driver behaviour, including a search run after the
\* session was torn down and recreated.
C29_SearchReturnsList == returned.done => returned.kind = "list"

\* C29 witness: after a cleanup() a search recreated the session, met an
\* exception in its body and still returned a list
C29_Witness ==
    /\ rel_calls >= 1 /\ driver # "none"
    /\ pc = "returned" /\ returned.done /\ returned.kind = "list"
    /\ cause = "exception"

\* C27: cleanup() is idempotent and never raises: every call, also when
\* quit() fails or no driver is held, leaves the scraper holding no driver
\* and lets no exception out, and a call made while no driver is held
\* changes nothing.
C27_CleanupIdempotentNeverRaises ==
    [][rel_calls' = rel_calls + 1
       => /\ driver' = "none"
          /\ ~rel_raised'
          /\ driver = "none" => UNCHANGED <<orphans, session_retry_count>>]_vars

\* C27 witness: cleanup() ran twice, the second time with no driver held,
\* and a quit() that failed left a browser behind
C27_Witness ==
    rel_calls >= 2 /\ driver = "none" /\ orphans > 0 /\ ~rel_raised

\* C36: the session retry counter stays within 0..max_session_retries in
\* every reachable state; a successful reconnection of ensure_valid_session
\* resets it to 0 and a failed reconnection attempt adds exactly 1.
C36_RetryCounterBounded ==
    /\ [](session_retry_count \in 0..max_session_retries)
    /\ [][lastCheck'.fn = "ensure_valid_session"
            => /\ lastCheck'.outcome = "reconnected"
                    => session_retry_count' = 0
               /\ lastCheck'.outcome = "reconnect_failed"
                    => session_retry_count' = session_retry_count + 1]_vars

\* C36 witness: failed reconnection attempts took the counter to its
\* maximum
C36_Witness ==
    /\ lastCheck.fn = "ensure_valid_session"
    /\ lastCheck.outcome = "reconnect_failed"
    /\ session_retry_count = max_session_retries

C35_ValuableListingsCollected ==
    [][(pc = "item_detail" /\ eligible') => all_items' = all_items + 1]_vars

(***************************************************************************)
(* SpecProfit: CoreEngine.find_profitable_listings over calculate_profit   *)
(***************************************************************************)
\* Money is kept in 1/10000 USD, Buyee prices in thousands of yen, ratios in
\* tenths, so that the float arithmetic of calculate_profit is exact here.
\* listings checked in one run
MaxListings == 2
\* listing['price'] in thousands of yen, price_data['raw_median'] in USD
BuyeePrices == {0, 1, 5, 20}
EbayPrices == {0, 50, 120, 400}
\* --min-profit: the CoreEngine default 2.0, the 1.5 of integration_test.py
\* and a stricter 3.0
ProfitRatios == {15, 20, 30}
\* 'meets_threshold': roi >= 2.0
roi_threshold == 20

\* total_cost_usd: the price, 5% + 3.5% Buyee fees and 4000 yen of shipping,
\* all at 0.0067 USD per yen, plus 50 USD when grading is included
TotalCost(price, grading) ==
    72695 * price + 268000 + (IF grading THEN 500000 ELSE 0)

\* net_revenue_usd: the eBay price less 12.5% + 3% fees and 0.30 USD
NetRevenue(ebay) == 8450 * ebay - 3000

\* roi >= r/10, with roi = net_revenue_usd / total_cost_usd if
\* total_cost_usd > 0 else 0
RoiAtLeast(price, ebay, grading, r) ==
    IF TotalCost(price, grading) > 0
    THEN 10 * NetRevenue(ebay) >= r * TotalCost(price, grading)
    ELSE 0 >= r

\* calculate_profit(...)['meets_threshold']
MeetsThreshold(price, ebay, grading) ==
    RoiAtLeast(price, ebay, grading, roi_threshold)

ProfitOnly == CoreUnchanged /\ UNCHANGED <<capVars, termVars, relVars, auxVars>>

\* command_search: the CLI arguments are copied into the config
InitProfit ==
    /\ SessIdle /\ ClsIdle /\ RetryIdle /\ ExtIdle /\ CapIdle /\ TermIdle
    /\ RelIdle /\ AuxIdle
    /\ min_profit_ratio \in ProfitRatios
    /\ include_grading \in BOOLEAN
    /\ lidx = 0
    /\ listing = NoListing
    /\ reported = FALSE

\* one iteration of the loop of find_profitable_listings: fetch the sold
\* prices, calculate the profit, append the listing if meets_threshold
CheckListing ==
    /\ lidx < MaxListings
    /\ lidx' = lidx + 1
    /\ \E price \in BuyeePrices, ebay \in EbayPrices,
          fetch \in {"ok", "no_data", "raises"} :
          /\ listing' = [price |-> price, ebay |-> ebay, fetch |-> fetch]
          /\ reported' = (fetch = "ok"
                          /\ MeetsThreshold(price, ebay, include_grading))
    /\ UNCHANGED <<min_profit_ratio, include_grading>>
    /\ ProfitOnly

NextProfit == CheckListing

SpecProfit == InitProfit /\ [][NextProfit]_vars

\* C30: the configured minimum profit ratio decides which listings are
\* reported: a listing whose prices could be fetched is in the result of
\* find_profitable_listings iff its ROI is at least min_profit_ratio.
C30_ConfiguredRatioDecides ==
    listing.fetch = "ok"
        => (reported <=> RoiAtLeast(listing.price, listing.ebay,
                                    include_grading, min_profit_ratio))

(***************************************************************************)
(* SpecBookmarks: BookmarkManager.save_auction and get_watchlist           *)
(***************************************************************************)
\* calls of save_auction in one run
MaxSaves == 3

\* everything outside the new components stays as constructed
OldIdle == SessIdle /\ ClsIdle /\ RetryIdle /\ ExtIdle /\ CapIdle /\ TermIdle
           /\ RelIdle /\ ProfIdle
OldUnchanged == CoreUnchanged /\ UNCHANGED <<capVars, termVars, relVars,
                                             profVars>>

\* auction_data['url'] as _extract_auction_id sees it: which site the
\* string names and the part after its last "/" (empty for a trailing
\* slash; a query string stays attached to it)
UrlHosts == {"yahoo", "buyee", "other"}
UrlTails == {"x1", "x2", "x1?conversionType=a", ""}
AuctionUrls == [host : UrlHosts, last : UrlTails]
Titles == {"a", "b"}

\* _extract_auction_id(url): url.split("/")[-1] for a Yahoo or Buyee URL,
\* None for any other
ExtractAuctionId(url) ==
    IF url.host \in {"yahoo", "buyee"} THEN url.last ELSE "None"
\* `if not auction_id`
Falsy(id) == id \in {"None", ""}

Keys(d) == {d[i][1] : i \in 1..Len(d)}

\* d[k] = v appending a second item for a key the dict already holds
DictSet_Append(d, k, v) == Append(d, <<k, v>>)

\* self.bookmarks[auction_id] = auction_data: the value of an existing key
\* is replaced in place, a new key is added at the end
DictSet(d, k, v) ==
    IF k \in Keys(d)
    THEN [i \in 1..Len(d) |-> IF d[i][1] = k THEN <<k, v>> ELSE d[i]]
    ELSE Append(d, <<k, v>>)

\* get_watchlist(): list(self.bookmarks.values())
GetWatchlist(d) == [i \in 1..Len(d) |-> d[i][2]]

\* bookmarks.json as the program wrote it in an earlier run
LoadedBookmarks ==
    {<< >>,
     << <<"x1", [url |-> [host |-> "buyee", last |-> "x1"], title |-> "a",
                 auction_id |-> "x1"]>> >>}

InitBookmarks ==
    /\ OldIdle /\ WfIdle /\ SlIdle /\ SnIdle
    /\ bookmarks \in LoadedBookmarks
    /\ bsaves = 0
    /\ blast = NoSave

\* save_auction(auction_data); _save_bookmarks and _save_individual_auction
\* swallow their own I/O errors
SaveAuction ==
    /\ bsaves < MaxSaves
    /\ bsaves' = bsaves + 1
    /\ \E url \in AuctionUrls, title \in Titles :
          LET auction_id == ExtractAuctionId(url) IN
          IF Falsy(auction_id)
          THEN /\ blast' = [url |-> url, title |-> title, result |-> FALSE]
               /\ UNCHANGED bookmarks
          ELSE /\ bookmarks' = DictSet(bookmarks, auction_id,
                                       [url |-> url, title |-> title,
                                        auction_id |-> auction_id])
               /\ blast' = [url |-> url, title |-> title, result |-> TRUE]
    /\ OldUnchanged /\ UNCHANGED <<wfVars, slVars, snVars>>

NextBookmarks == SaveAuction

SpecBookmarks == InitBookmarks /\ [][NextBookmarks]_vars

\* C31: after save_auction returns True the watchlist holds that auction
\* under its extracted auction id, and the watchlist never holds two
\* entries with the same auction id (a repeated save replaces the entry).
C31_SavedOncePerAuctionId ==
    LET w == GetWatchlist(bookmarks) IN
    /\ blast.result
          => \E i \in 1..Len(w) :
                /\ w[i].auction_id = ExtractAuctionId(blast.url)
                /\ w[i].url = blast.url /\ w[i].title = blast.title
    /\ \A i, j \in 1..Len(w) : w[i].auction_id = w[j].auction_id => i = j

\* C31 witness: an auction already in the watchlist was saved again with
\* other data and the watchlist holds the new entry only
C31_Witness ==
    /\ bsaves >= 2 /\ blast.result /\ blast.title = "b"
    /\ Len(bookmarks) = 1 /\ bookmarks[1][2].title = "b"

(***************************************************************************)
(* SpecWorkflow: one workflow from the constructed scraper to its end, in  *)
(* main() of buyee_scraper and in CoreEngine.run_workflow                  *)
(***************************************************************************)
\* search terms of one workflow
MaxWfTerms == 5

WorkflowOnly == UNCHANGED <<session_retry_count, searchVars, histVars, clsVars,
                            retryVars, extVars, capVars, termVars, relVars,
                            profVars, bmVars, slVars, snVars>>

\* BuyeeScraper(...) returned: setup_driver succeeded, the driver is live
InitWorkflow ==
    /\ OldIdle /\ BmIdle /\ SlIdle /\ SnIdle
    /\ wrunner \in Runners
    /\ wpc = "constructed"
    /\ wterms = 0
    /\ wclose = "not_called"
    /\ wresult = "none"

\* main(): `if not scraper.test_connection(): return`; the driver.get calls
\* of test_connection may fail or kill the browser
TestConnection ==
    /\ wrunner = "main" /\ wpc = "constructed"
    /\ \E g \in ProbeOutcomes, reachable \in BOOLEAN :
          /\ driver' = AfterCommand(driver, g)
          /\ wpc' = IF g = "ok" /\ reachable THEN "terms" ELSE "finally"
          /\ wresult' = IF g = "ok" /\ reachable THEN "none"
                         ELSE "no_connection"
    /\ UNCHANGED <<orphans, wrunner, wterms, wclose>>
    /\ WorkflowOnly

\* main(): one iteration of the loop over SEARCH_TERMS, first half:
\* `if not scraper.is_driver_valid()` (it cannot return False)
WorkflowMainCheck ==
    /\ wrunner = "main" /\ wpc = "terms" /\ wterms < MaxWfTerms
    /\ \E pr \in ProbeOutcomes, q \in QuitChoices(orphans),
          su \in SetupOutcomes :
          LET c == IsDriverValid(Session, pr, q, su) IN
          /\ driver' = c.sess.driver
          /\ orphans' = c.sess.orphans
    /\ wpc' = "search"
    /\ UNCHANGED <<wrunner, wterms, wclose, wresult>>
    /\ WorkflowOnly

\* second half: search_items(search_term), whose commands may kill the
\* browser; whatever it raises is caught and the loop continues
WorkflowMainTerm ==
    /\ wrunner = "main" /\ wpc = "search"
    /\ \E g \in ProbeOutcomes : driver' = AfterCommand(driver, g)
    /\ wterms' = wterms + 1
    /\ wpc' = "terms"
    /\ UNCHANGED <<orphans, wrunner, wclose, wresult>>
    /\ WorkflowOnly

\* main(): the loop is over and control reaches `finally`
WorkflowMainLoopEnd ==
    /\ wrunner = "main" /\ wpc = "terms" /\ wterms = MaxWfTerms
    /\ wpc' = "finally"
    /\ wresult' = "done"
    /\ UNCHANGED <<sessVars, wrunner, wterms, wclose>>
    /\ WorkflowOnly

\* close(): self.driver.quit() in a try whose handler logs; the handle is
\* not cleared
Close(s, q) ==
    IF s.driver = "none" THEN s                  \* AttributeError, caught
    ELSE [s EXCEPT !.driver = "dead",
                   !.orphans = IF q = "raise_alive" THEN @ + 1 ELSE @]

\* main(): `finally: if scraper: scraper.close()`
WorkflowFinally ==
    /\ wrunner = "main" /\ wpc = "finally"
    /\ \E q \in QuitChoices(orphans) :
          LET s == Close(Session, q) IN
          /\ driver' = s.driver
          /\ orphans' = s.orphans
          /\ wclose' = IF driver # "none" /\ q = "ok" THEN "quit" ELSE "raised"
    /\ wpc' = "ended"
    /\ UNCHANGED <<wrunner, wterms, wresult>>
    /\ WorkflowOnly

\* run_workflow(): search_listings(terms) starts its loop
WorkflowEngineStart ==
    /\ wrunner = "engine" /\ wpc = "constructed"
    /\ wpc' = "terms"
    /\ UNCHANGED <<sessVars, wrunner, wterms, wclose, wresult>>
    /\ WorkflowOnly

\* search_listings(): one term searched through the scraper's driver; an
\* exception ends the loop, search_listings returns [] and run_workflow
\* returns []
WorkflowEngineTerm ==
    /\ wrunner = "engine" /\ wpc = "terms" /\ wterms < MaxWfTerms
    /\ \E g \in ProbeOutcomes, raises \in BOOLEAN :
          /\ driver' = AfterCommand(driver, g)
          /\ wpc' = IF g = "dies" \/ raises THEN "ended" ELSE "terms"
          /\ wresult' = IF g = "dies" \/ raises THEN "empty" ELSE "none"
    /\ wterms' = wterms + 1
    /\ UNCHANGED <<orphans, wrunner, wclose>>
    /\ WorkflowOnly

\* run_workflow(): the remaining steps use no browser of the scraper; the
\* method returns
WorkflowEngineEnd ==
    /\ wrunner = "engine" /\ wpc = "terms" /\ wterms = MaxWfTerms
    /\ wpc' = "ended"
    /\ wresult' = "done"
    /\ UNCHANGED <<sessVars, wrunner, wterms, wclose>>
    /\ WorkflowOnly

NextWorkflow ==
    \/ TestConnection
    \/ WorkflowMainCheck
    \/ WorkflowMainTerm
    \/ WorkflowMainLoopEnd
    \/ WorkflowFinally
    \/ WorkflowEngineStart
    \/ WorkflowEngineTerm
    \/ WorkflowEngineEnd

SpecWorkflow == InitWorkflow /\ [][NextWorkflow]_vars

\* C37: every browser session that was acquired is released: when a
\* workflow has ended (run_workflow returned, or main() finished, normally
\* or after an error) the scraper's driver has been quit and no live
\* browser remains.
C37_SessionReleasedAtEnd ==
    wpc = "ended" => LiveBrowsers = 0 /\ wclose = "quit"

(***************************************************************************)
(* SpecListings: CoreEngine.search_listings, the per-term limit and the    *)
(* removal of duplicate URLs                                               *)
(***************************************************************************)
\* search terms of one call
MaxSearchTerms == 2
\* listings one term's search hands back after the popularity filter
MaxFound == 3
\* largest max_listings_per_search the model configures
MaxPerSearch == 2

ListingUrls == {"u1", "u2", "u3"}
\* the URLs of popular_listings for one term, in order (repeats allowed)
FoundUrls == UNION {[1..n -> ListingUrls] : n \in 0..MaxFound}

\* popular_listings of term t: each listing carries its URL; term and pos
\* say which search produced it and where it stood
Tagged(urls, t) ==
    [k \in 1..Len(urls) |-> [url |-> urls[k], term |-> t, pos |-> k]]

\* `popular_listings[:n]` taking one listing too many
Limit_OneMore(listings, n) ==
    SubSeq(listings, 1, Min(n + 1, Len(listings)))

\* `popular_listings[:self.config['max_listings_per_search']]`, n >= 0
Limit(listings, n) ==
    SubSeq(listings, 1, Min(n, Len(listings)))

\* the loop over all_listings with seen_urls: a listing is appended unless
\* its URL was seen
RECURSIVE RemoveDuplicates(_, _, _, _)
RemoveDuplicates(listings, i, seen_urls, unique) ==
    IF i > Len(listings) THEN unique
    ELSE IF listings[i].url \in seen_urls
    THEN RemoveDuplicates(listings, i + 1, seen_urls, unique)
    ELSE RemoveDuplicates(listings, i + 1, seen_urls \cup {listings[i].url},
                          Append(unique, listings[i]))

ListingsOnly == OldUnchanged /\ UNCHANGED <<bmVars, wfVars, snVars>>

\* search_listings(search_terms) is called: all_listings = []
InitListings ==
    /\ OldIdle /\ BmIdle /\ WfIdle /\ SnIdle
    /\ max_listings_per_search \in 1..MaxPerSearch
    /\ sterm = 1
    /\ all_listings = << >>
    /\ unique_listings = << >>
    /\ spc = "loop"

\* one iteration of the loop over search_terms: search, popularity filter,
\* slice, extend; an exception reaches the handler, which returns []
SearchTerm ==
    /\ spc = "loop" /\ sterm <= MaxSearchTerms
    /\ \E out \in {"ok", "raises"}, urls \in FoundUrls :
          IF out = "raises"
          THEN /\ unique_listings' = << >>
               /\ spc' = "returned"
               /\ UNCHANGED <<sterm, all_listings>>
          ELSE /\ all_listings' =
                     all_listings \o Limit(Tagged(urls, sterm),
                                           max_listings_per_search)
               /\ sterm' = sterm + 1
               /\ UNCHANGED <<unique_listings, spc>>
    /\ UNCHANGED max_listings_per_search
    /\ ListingsOnly

\* after the loop: duplicates are removed and unique_listings is returned
ReturnUnique ==
    /\ spc = "loop" /\ sterm > MaxSearchTerms
    /\ unique_listings' = RemoveDuplicates(all_listings, 1, {}, << >>)
    /\ spc' = "returned"
    /\ UNCHANGED <<max_listings_per_search, sterm, all_listings>>
    /\ ListingsOnly

NextListings == SearchTerm \/ ReturnUnique

SpecListings == InitListings /\ [][NextListings]_vars

\* listing a stands before listing b in term order
Earlier(a, b) == a.term < b.term \/ (a.term = b.term /\ a.pos < b.pos)

\* C38: search_listings returns listings with pairwise distinct URLs, each
\* the first occurrence of its URL in term order, and no search term
\* contributes more than max_listings_per_search listings.
C38_DistinctFirstOccurrenceLimited ==
    spc = "returned"
        => LET u == unique_listings
               found == {all_listings[k] : k \in 1..Len(all_listings)}
           IN /\ \A i, j \in 1..Len(u) : u[i].url = u[j].url => i = j
              /\ \A i \in 1..Len(u) :
                    /\ u[i] \in found
                    /\ \A l \in found : l.url = u[i].url => ~Earlier(l, u[i])
              /\ \A t \in 1..MaxSearchTerms :
                    /\ Cardinality({l \in found : l.term = t})
                          <= max_listings_per_search
                    /\ Cardinality({i \in 1..Len(u) : u[i].term = t})
                          <= max_listings_per_search

\* C38 witness: the first term filled its limit, the second brought a URL
\* again, and the list returned holds that URL once, from the first term
C38_Witness ==
    /\ spc = "returned"
    /\ Len(unique_listings) > 0
    /\ Len(unique_listings) < Len(all_listings)
    /\ \E a, b \in 1..Len(all_listings) :
          /\ all_listings[a].term = 1 /\ all_listings[b].term = 2
          /\ all_listings[a].url = all_listings[b].url
    /\ Cardinality({k \in 1..Len(all_listings) : all_listings[k].term = 1})
          = max_listings_per_search

(***************************************************************************)
(* SpecSanitize: sanitize_filename over character sequences                *)
(***************************************************************************)
\* `if len(sanitized) > 240`: the length limit, which the model runs small
filename_limit == 3
\* characters a name may exceed the limit by
MaxExcess == 2

\* r'[<>:"/\\|?*]': the characters a file name must not hold; "?" and ":"
\* stand for the class
InvalidChars == {"?", ":"}
\* the characters strip('. ') removes at both ends
StripChars == {".", " "}
NameChars == {"a", "_"} \cup InvalidChars \cup StripChars
Names == UNION {[1..n -> NameChars] : n \in 0..(filename_limit + MaxExcess)}

\* re.sub(invalid_chars, '_', filename)
ReplaceInvalid(name) ==
    [k \in 1..Len(name) |-> IF name[k] \in InvalidChars THEN "_" ELSE name[k]]

\* str.lstrip('. ') and str.rstrip('. ')
RECURSIVE StripLeft(_)
StripLeft(name) ==
    IF name # << >> /\ Head(name) \in StripChars THEN StripLeft(Tail(name))
    ELSE name
RECURSIVE StripRight(_)
StripRight(name) ==
    IF name # << >> /\ name[Len(name)] \in StripChars
    THEN StripRight(SubSeq(name, 1, Len(name) - 1))
    ELSE name
Strip(name) == StripRight(StripLeft(name))

\* sanitized[:240] when len(sanitized) > 240
Truncate(name) ==
    IF Len(name) > filename_limit THEN SubSeq(name, 1, filename_limit)
    ELSE name

\* sanitize_filename(filename) for a str argument: replace, strip, then
\* truncate
SanitizeName(name) == Truncate(Strip(ReplaceInvalid(name)))

SanitizeOnly == OldUnchanged /\ UNCHANGED <<bmVars, wfVars, slVars>>

InitSanitize ==
    /\ OldIdle /\ BmIdle /\ WfIdle /\ SlIdle
    /\ fname \in Names
    /\ fout = << >>
    /\ fagain = << >>
    /\ fpc = "start"

\* safe_identifier = self.sanitize_filename(identifier)
Sanitize ==
    /\ fpc = "start"
    /\ fout' = SanitizeName(fname)
    /\ fpc' = "once"
    /\ UNCHANGED <<fname, fagain>>
    /\ SanitizeOnly

\* sanitize_filename applied to its own result
SanitizeAgain ==
    /\ fpc = "once"
    /\ fagain' = SanitizeName(fout)
    /\ fpc' = "twice"
    /\ UNCHANGED <<fname, fout>>
    /\ SanitizeOnly

NextSanitize == Sanitize \/ SanitizeAgain

SpecSanitize == InitSanitize /\ [][NextSanitize]_vars

\* C39: sanitize_filename always yields a storage-safe name: the result
\* holds none of the forbidden characters, has no leading or trailing dot or
\* space, is no longer than the limit, and sanitizing it again returns it
\* unchanged.
C39_SanitizedNameIsSafe ==
    /\ fpc \in {"once", "twice"}
          => /\ \A k \in 1..Len(fout) : fout[k] \notin InvalidChars
             /\ Len(fout) <= filename_limit
             /\ fout # << >>
                   => Head(fout) \notin StripChars
                      /\ fout[Len(fout)] \notin StripChars
    /\ fpc = "twice" => fagain = fout

====
